---- MODULE Spec2Model ----
(***************************************************************************)
(* A model of benchmark.py: the small-file read benchmark.                 *)
(*                                                                         *)
(* The state is the content of the working directory (the cache/ tree)    *)
(* plus a record of what the last invocation of the script did.  One       *)
(* action is one invocation of the script, from the module-level mkdir to  *)
(* the exit of the process.                                                *)
(***************************************************************************)
EXTENDS Integers, Sequences, FiniteSets, TLC

(***************************************************************************)
(* Bounds of the model.                                                    *)
(***************************************************************************)
MaxCount == 2        \* largest COUNT given to init
MaxSize == 1         \* largest --size given to create / test
MaxOps == 4          \* number of invocations in one behaviour
RngMod == 16         \* number of states of the pseudo-random generator

(***************************************************************************)
(* Program constants.                                                      *)
(***************************************************************************)
SeedValue == 515     \* np.random.seed(515)
HexBase == 16        \* range(16), 16**3
NameLen == 32        \* length of uuid4().hex
MinLen == 10         \* int(10 + ...)
LenFactor == 5       \* ... * 5 * size
ItemBytes == 4       \* dtype="float32"

(***************************************************************************)
(* Small helpers on sequences.                                             *)
(***************************************************************************)
RECURSIVE SumSeq(_)
SumSeq(s) == IF s = <<>> THEN 0 ELSE Head(s) + SumSeq(Tail(s))

SeqOfLen(S, n) == [1..n -> S]

(***************************************************************************)
(* Identifiers: uuid.uuid4().hex is a string of 32 lowercase hex digits.   *)
(* A name is the sequence of its 32 digit values.  uuid4 is random: the    *)
(* model draws it from a few sample values.                                *)
(***************************************************************************)
UuidHex(a, b, c) ==
    [i \in 1..NameLen |->
        IF i = NameLen - 2 THEN a
        ELSE IF i = NameLen - 1 THEN b
        ELSE IF i = NameLen THEN c
        ELSE IF i = 13 THEN 4
        ELSE (7 * i + a) % HexBase]

Uuid4 == {UuidHex(10, 3, 15), UuidHex(0, 1, 1)}

(***************************************************************************)
(* The layout mappings, as the f-strings of the create functions and of    *)
(* the test functions write them (two definitions each: the code has two). *)
(* name[-1] is the last character, name[-3:] the last three.               *)
(***************************************************************************)
Neg(name, k) == name[Len(name) - k + 1]          \* name[-k]

Last3(name) == SubSeq(name, Len(name) - 2, Len(name))   \* name[-3:]

\* "%03x" % i, for 0 <= i < 16**3
Hex03(i) == << i \div (HexBase * HexBase), (i \div HexBase) % HexBase, i % HexBase >>

CreatePathFlat(name) == << name >>
CreatePathTwo(name) == << Last3(name), name >>
CreatePathFour(name) == << Neg(name, 1), Neg(name, 2), Neg(name, 3), name >>

TestPathFlat(name) == << name >>
TestPathTwo(name) == << Last3(name), name >>
\* the levels taken first to last instead of last to first
TestPathFourForward(name) == << Neg(name, 3), Neg(name, 2), Neg(name, 1), name >>

TestPathFour(name) == << Neg(name, 1), Neg(name, 2), Neg(name, 3), name >>

(***************************************************************************)
(* The pseudo-random stream.  numpy's generator is modelled by a linear    *)
(* congruential generator over RngMod states; a draw u stands for the      *)
(* float u / RngMod in [0, 1).                                             *)
(***************************************************************************)
\* the generator state of a fresh process: seeded from OS entropy
Entropy == {0, RngMod - 1}

\* a seed call that leaves the generator as it is
NoSeed(seed, r) == r

Seed(seed, r) == seed % RngMod                    \* np.random.seed(seed)

NextRng(r) == (5 * r + 3) % RngMod

\* np.random.random(): one draw; [u, rng]
Random(r) == [u |-> r, rng |-> NextRng(r)]

\* np.random.random(n): n draws; [data, rng]
RECURSIVE RandomArray(_, _)
RandomArray(r, n) ==
    IF n <= 0 THEN [data |-> <<>>, rng |-> r]
    ELSE LET rest == RandomArray(NextRng(r), n - 1)
         IN [data |-> <<r>> \o rest.data, rng |-> rest.rng]

\* int(10 + u * 5 * size) for the draw u / RngMod and size >= 0
RecordLen(u, size) == MinLen + ((u * LenFactor * size) \div RngMod)

\* np.random.shuffle(x): Fisher-Yates from the last position down; [data, rng]
Swap(x, i, j) == [x EXCEPT ![i] = x[j], ![j] = x[i]]

RECURSIVE ShuffleFrom(_, _, _)
ShuffleFrom(x, i, r) ==
    IF i <= 1 THEN [data |-> x, rng |-> r]
    ELSE LET d == Random(r)
             j == 1 + ((d.u * i) \div RngMod)
         IN ShuffleFrom(Swap(x, i, j), i - 1, d.rng)

Shuffle(x, r) == ShuffleFrom(x, Len(x), r)

(***************************************************************************)
(* The command line.  docopt(__doc__) reads the defaults of the options    *)
(* from the Options: section of the docstring.  A string is the sequence   *)
(* of its characters.                                                      *)
(***************************************************************************)
\* line 13 of the docstring, stripped
SizeOptionLine ==
    << "-", "-", "s", "i", "z", "e", "=", "<", "s", "i", "z", "e", ">", " ",
       "T", "h", "e", " ", "s", "i", "z", "e", " ", "o", "f", " ", "r", "a",
       "n", "d", "o", "m", " ", "g", "e", "n", "e", "r", "a", "t", "e", "d",
       " ", "a", "r", "r", "a", "y", "s", " ", "[", "d", "e", "f", "a", "u",
       "l", "t", ":", "2", "5", "6", "]", "." >>

StartsWithAt(s, i, p) ==
    /\ i + Len(p) - 1 <= Len(s)
    /\ SubSeq(s, i, i + Len(p) - 1) = p

\* the least index at which p occurs in s, 0 when it does not
Find(s, p) ==
    IF \E i \in 1..Len(s) : StartsWithAt(s, i, p)
    THEN CHOOSE i \in 1..Len(s) :
            /\ StartsWithAt(s, i, p)
            /\ \A j \in 1..(i - 1) : ~StartsWithAt(s, j, p)
    ELSE 0

\* the greatest index at which p occurs in s, 0 when it does not
FindLast(s, p) ==
    IF \E i \in 1..Len(s) : StartsWithAt(s, i, p)
    THEN CHOOSE i \in 1..Len(s) :
            /\ StartsWithAt(s, i, p)
            /\ \A j \in (i + 1)..Len(s) : ~StartsWithAt(s, j, p)
    ELSE 0

\* s.partition('  ')[2]: what follows the first two consecutive spaces
DescriptionOf(s) ==
    LET i == Find(s, <<" ", " ">>)
    IN IF i = 0 THEN <<>> ELSE SubSeq(s, i + 2, Len(s))

\* re.findall('\[default: (.*)\]', description): the first match, greedy
DocumentedDefault == 256     \* [default:256]
DefaultPrefix == << "[", "d", "e", "f", "a", "u", "l", "t", ":", " " >>

DefaultOf(description) ==
    LET i == Find(description, DefaultPrefix)
        from == i + Len(DefaultPrefix)
        rest == SubSeq(description, from, Len(description))
        j == FindLast(rest, << "]" >>)
    IN IF i = 0 \/ j = 0
       THEN [given |-> FALSE, text |-> <<>>]
       ELSE [given |-> TRUE, text |-> SubSeq(rest, 1, j - 1)]

\* the value docopt gives arguments["--size"] when the option is absent;
\* given = FALSE is None
SizeDefault == DefaultOf(DescriptionOf(SizeOptionLine))

Digits == << "0", "1", "2", "3", "4", "5", "6", "7", "8", "9" >>

IsDigit(c) == \E d \in 1..Len(Digits) : Digits[d] = c

DigitValue(c) == (CHOOSE d \in 1..Len(Digits) : Digits[d] = c) - 1

RECURSIVE DecimalValue(_)
DecimalValue(s) ==
    IF s = <<>> THEN 0
    ELSE 10 * DecimalValue(SubSeq(s, 1, Len(s) - 1)) + DigitValue(s[Len(s)])

IsDecimal(s) == s # <<>> /\ \A i \in 1..Len(s) : IsDigit(s[i])

\* int(x) of an option value: [exc, val]
IntOf(opt) ==
    IF ~opt.given THEN [exc |-> "TypeError", val |-> 0]
    ELSE IF IsDecimal(opt.text) THEN [exc |-> "ok", val |-> DecimalValue(opt.text)]
    ELSE IF Len(opt.text) > 1 /\ Head(opt.text) = "-" /\ IsDecimal(Tail(opt.text))
    THEN [exc |-> "ok", val |-> 0 - DecimalValue(Tail(opt.text))]
    ELSE [exc |-> "ValueError", val |-> 0]

\* int(eval(COUNT)) for the texts -d, d and dEd: [exc, val]
RECURSIVE Pow10(_)
Pow10(e) == IF e = 0 THEN 1 ELSE 10 * Pow10(e - 1)

IntOfEval(text) ==
    LET e == Find(text, << "e" >>)
    IN IF IsDecimal(text) THEN [exc |-> "ok", val |-> DecimalValue(text)]
       ELSE IF Len(text) > 1 /\ Head(text) = "-" /\ IsDecimal(Tail(text))
       THEN [exc |-> "ok", val |-> 0 - DecimalValue(Tail(text))]
       ELSE IF e > 1 /\ IsDecimal(SubSeq(text, 1, e - 1))
                     /\ IsDecimal(SubSeq(text, e + 1, Len(text)))
       THEN [exc |-> "ok",
             val |-> DecimalValue(SubSeq(text, 1, e - 1))
                       * Pow10(DecimalValue(SubSeq(text, e + 1, Len(text))))]
       ELSE [exc |-> "NameError", val |-> 0]

\* the decimal text of a number below 10
TextOf(n) == << Digits[n + 1] >>

Layouts == {"flat", "two_level", "four_level", "memmap"}

\* command lines tried by the model
CountTexts ==
    {TextOf(n) : n \in 0..MaxCount}
        \cup {<< "-", "1" >>, << "1", "e", "0" >>, << "n" >>}

SizeOptions ==
    {[given |-> TRUE, text |-> TextOf(n)] : n \in 0..MaxSize}
        \cup {[given |-> TRUE, text |-> << "x" >>]}

LayoutTokens == Layouts \cup {"three_level"}

(***************************************************************************)
(* Files.  A .npy file written by np.save holds the array and its shape;   *)
(* the memmap block is raw: a number of bytes and the float32 items in     *)
(* them, without a header.                                                 *)
(***************************************************************************)
Absent == [exists |-> FALSE, shape |-> 0, data |-> <<>>]

\* np.save(path, arr)
NpSave(arr) == [exists |-> TRUE, shape |-> Len(arr), data |-> arr]

\* np.load(path) of an existing file
NpLoad(file) == SubSeq(file.data, 1, file.shape)

\* arr.astype(np.float32): elementwise, the length is kept
AsFloat32(arr) == [i \in 1..Len(arr) |-> arr[i]]

\* np.mean(arr) as the pair (sum, number of items)
Mean(arr) == << SumSeq(arr), Len(arr) >>

\* the directory content after writing file rec at path p
Put(files, p, rec) ==
    [q \in (DOMAIN files) \cup {p} |-> IF q = p THEN rec ELSE files[q]]

NoFiles == [q \in {} |-> <<>>]

Event(ev, id, path, len) == [ev |-> ev, id |-> id, path |-> path, len |-> len]

VARIABLES
    cacheDir,      \* cache/ exists
    filelist,      \* cache/filelist.npy
    flatDir,       \* cache/flat/ exists
    flat,          \* the files of cache/flat/, by path below it
    twoRoot,       \* cache/2level/ exists
    twoMade,       \* cache/2level/%03x exists for the i below twoMade
    two,           \* the files below cache/2level/
    fourRoot,      \* cache/4level/ exists
    fourMade,      \* cache/4level/i/j/k exists for the (i, j, k) below fourMade
    four,          \* the files below cache/4level/
    memDir,        \* cache/memmap/ exists
    memmap,        \* cache/memmap/arr.npy: [exists, bytes, data, shape]
    out,           \* what the last invocation did
    ops            \* number of invocations so far

disk == << cacheDir, filelist, flatDir, flat, twoRoot, twoMade, two,
           fourRoot, fourMade, four, memDir, memmap >>

vars == << cacheDir, filelist, flatDir, flat, twoRoot, twoMade, two,
           fourRoot, fourMade, four, memDir, memmap, out, ops >>

\* shape is what the create that wrote the block declared; the file does
\* not hold it, and nothing reads it
NoBlock == [exists |-> FALSE, bytes |-> 0, data |-> <<>>, shape |-> << 0, 0 >>]

\* the record of an invocation; rerun: the invocation before it had the same
\* command line and called the same function
Outcome(cmd, layout, given, size, called, res) ==
    [cmd |-> cmd, layout |-> layout, given |-> given, size |-> size,
     called |-> called, exc |-> res.exc, at |-> res.at, ids |-> res.ids,
     log |-> res.log, order |-> res.order, means |-> res.means,
     summary |-> res.summary,
     rerun |-> /\ called /\ out.called
               /\ out.cmd = cmd /\ out.layout = layout /\ out.size = size]

Result(exc, at, ids, log, order, means, summary) ==
    [exc |-> exc, at |-> at, ids |-> ids, log |-> log, order |-> order,
     means |-> means, summary |-> summary]

Raised(exc, at) == Result(exc, at, <<>>, <<>>, <<>>, <<>>, FALSE)

NoOutcome ==
    [cmd |-> "none", layout |-> "none", given |-> FALSE, size |-> 0,
     called |-> FALSE, exc |-> "ok", at |-> "none", ids |-> <<>>,
     log |-> <<>>, order |-> <<>>, means |-> <<>>, summary |-> FALSE,
     rerun |-> FALSE]

Init ==
    /\ cacheDir = FALSE
    /\ filelist = Absent
    /\ flatDir = FALSE
    /\ flat = NoFiles
    /\ twoRoot = FALSE
    /\ twoMade = 0
    /\ two = NoFiles
    /\ fourRoot = FALSE
    /\ fourMade = 0
    /\ four = NoFiles
    /\ memDir = FALSE
    /\ memmap = NoBlock
    /\ out = NoOutcome
    /\ ops = 0

(***************************************************************************)
(* init COUNT                                                              *)
(***************************************************************************)
\* create_filelist(n) with the names uuid4 drew: the file and the outcome
create_filelist(n, names) ==
    LET file == NpSave(names)
        files == NpLoad(file)
    IN [filelist |-> file,
        res |-> IF Len(files) = n
                THEN Result("ok", "none", names, <<>>, <<>>, <<>>, FALSE)
                ELSE Result("AssertionError", "assert", names, <<>>, <<>>, <<>>, FALSE)]

\* one name too few: range(n - 1)
NameListsShort(n) == IF n <= 1 THEN {<<>>} ELSE SeqOfLen(Uuid4, n - 1)

\* [uuid.uuid4().hex for _ in range(n)]
NameLists(n) == IF n <= 0 THEN {<<>>} ELSE SeqOfLen(Uuid4, n)

(***************************************************************************)
(* create LAYOUT                                                           *)
(***************************************************************************)
\* for name in files: np.save(path, np.random.random(int(10 + ...)))
RECURSIVE SaveLoop(_, _, _, _, _, _, _, _)
SaveLoop(names, paths, dirs, k, r, size, files, log) ==
    IF k > Len(names) THEN [files |-> files, log |-> log, exc |-> "ok"]
    ELSE LET d == Random(r)
             a == RandomArray(d.rng, RecordLen(d.u, size))
             rec == AsFloat32(a.data)
         IN IF ~dirs[k]
            THEN [files |-> files, log |-> log, exc |-> "FileNotFoundError"]
            ELSE SaveLoop(names, paths, dirs, k + 1, a.rng, size,
                          Put(files, paths[k], NpSave(rec)),
                          Append(log, Event("save", names[k], paths[k], Len(rec))))

\* range(16**2) instead of range(16**3)
MkdirTwoShort == HexBase * HexBase

\* for i in range(16**3): Path("cache/2level/%03x" % i).mkdir(exist_ok=True)
MkdirTwo == HexBase * HexBase * HexBase

\* for i, j, k in range(16): Path(f"cache/4level/{i:x}/{j:x}/{k:x}/").mkdir(...)
MkdirFour == HexBase * HexBase * HexBase

\* the (i, j, k) of the n-th iteration of the three nested loops
FourLeaf(n) == << n \div (HexBase * HexBase), (n \div HexBase) % HexBase, n % HexBase >>

\* int(digits, 16) of three hex digits
HexValue(d) == (d[1] * HexBase + d[2]) * HexBase + d[3]

\* the directory named "%03x" % i for some i of the loop done so far
TwoDirExists(made, bucket) ==
    /\ HexValue(bucket) < made
    /\ Hex03(HexValue(bucket)) = bucket

\* the directory i/j/k for some (i, j, k) of the loops done so far
FourDirExists(made, leaf) ==
    /\ HexValue(leaf) < made
    /\ FourLeaf(HexValue(leaf)) = leaf

create_files_flat(size, r0) ==
    IF ~filelist.exists
    THEN [files |-> flat, res |-> Raised("FileNotFoundError", "filelist")]
    ELSE LET files == NpLoad(filelist)
             r == Seed(SeedValue, r0)
             w == SaveLoop(files, [k \in 1..Len(files) |-> CreatePathFlat(files[k])],
                           [k \in 1..Len(files) |-> TRUE], 1, r, size, flat, <<>>)
         IN [files |-> w.files,
             res |-> Result(w.exc, IF w.exc = "ok" THEN "none" ELSE "save",
                            files, w.log, <<>>, <<>>, FALSE)]

create_files_two_level(size, r0) ==
    IF ~filelist.exists
    THEN [made |-> twoMade, files |-> two,
          res |-> Raised("FileNotFoundError", "filelist")]
    ELSE LET files == NpLoad(filelist)
             made == IF twoMade > MkdirTwo THEN twoMade ELSE MkdirTwo
             r == Seed(SeedValue, r0)
             paths == [k \in 1..Len(files) |-> CreatePathTwo(files[k])]
             w == SaveLoop(files, paths,
                           [k \in 1..Len(files) |-> TwoDirExists(made, paths[k][1])],
                           1, r, size, two, << Event("mkdirs", <<>>, <<>>, made) >>)
         IN [made |-> made, files |-> w.files,
             res |-> Result(w.exc, IF w.exc = "ok" THEN "none" ELSE "save",
                            files, w.log, <<>>, <<>>, FALSE)]

create_files_four_level(size, r0) ==
    IF ~filelist.exists
    THEN [made |-> fourMade, files |-> four,
          res |-> Raised("FileNotFoundError", "filelist")]
    ELSE LET files == NpLoad(filelist)
             made == IF fourMade > MkdirFour THEN fourMade ELSE MkdirFour
             r == Seed(SeedValue, r0)
             paths == [k \in 1..Len(files) |-> CreatePathFour(files[k])]
             w == SaveLoop(files, paths,
                           [k \in 1..Len(files) |->
                               FourDirExists(made, SubSeq(paths[k], 1, 3))],
                           1, r, size, four, << Event("mkdirs", <<>>, <<>>, made) >>)
         IN [made |-> made, files |-> w.files,
             res |-> Result(w.exc, IF w.exc = "ok" THEN "none" ELSE "save",
                            files, w.log, <<>>, <<>>, FALSE)]

\* row i of a block of rows of `size` items
RowOf(data, i, size) == SubSeq(data, i * size + 1, (i + 1) * size)

\* arr[i] = row
SetRow(data, i, size, row) ==
    [j \in 1..Len(data) |->
        IF i * size < j /\ j <= (i + 1) * size THEN row[j - i * size] ELSE data[j]]

\* for i in range(files.shape[0]): arr[i] = np.random.random(size)
RECURSIVE RowLoop(_, _, _, _, _, _)
RowLoop(i, n, r, size, data, log) ==
    IF i >= n THEN [data |-> data, log |-> log]
    ELSE LET a == RandomArray(r, size)
             row == AsFloat32(a.data)
         IN RowLoop(i + 1, n, a.rng, size, SetRow(data, i, size, row),
                    Append(log, Event("row", i, << i * size * ItemBytes >>, Len(row))))

\* a write loop that stops one row early: range(n - 1)
WriteRowsShort(n, r, size, data, log) == RowLoop(0, n - 1, r, size, data, log)

\* the write loop of create_files_memmap, from row 0
WriteRows(n, r, size, data, log) == RowLoop(0, n, r, size, data, log)

\* np.memmap(mode="w+", shape=(n, size)) creates or truncates the file and
\* maps n * size * 4 bytes of it.  Mapping no bytes depends on the numpy in
\* use: it raises ValueError (the file stays empty), or one byte is written
\* and mapped (grow).
create_files_memmap(size, r0, grow) ==
    IF ~filelist.exists
    THEN [block |-> memmap, res |-> Raised("FileNotFoundError", "filelist")]
    ELSE LET files == NpLoad(filelist)
             n == Len(files)
             bytes == n * size * ItemBytes
             opened == << Event("open", <<>>, <<>>, bytes) >>
             r == Seed(SeedValue, r0)
             w == WriteRows(n, r, size, [j \in 1..(n * size) |-> 0], opened)
         IN IF bytes = 0 /\ ~grow
            THEN [block |-> [exists |-> TRUE, bytes |-> 0, data |-> <<>>,
                             shape |-> << n, size >>],
                  res |-> Result("ValueError", "memmap", files, <<>>, <<>>, <<>>, FALSE)]
            ELSE [block |-> [exists |-> TRUE,
                             bytes |-> IF bytes = 0 THEN 1 ELSE bytes,
                             data |-> w.data, shape |-> << n, size >>],
                  res |-> Result("ok", "none", files,
                                 w.log \o << Event("flush", <<>>, <<>>, 0),
                                             Event("release", <<>>, <<>>, 0) >>,
                                 <<>>, <<>>, FALSE)]

(***************************************************************************)
(* test LAYOUT                                                             *)
(***************************************************************************)
\* for name in files: means.append(np.mean(np.load(path)))
RECURSIVE LoadLoop(_, _, _, _, _, _)
LoadLoop(names, paths, k, files, means, log) ==
    IF k > Len(names) THEN [means |-> means, log |-> log, exc |-> "ok"]
    ELSE IF paths[k] \notin DOMAIN files
    THEN [means |-> means, log |-> log, exc |-> "FileNotFoundError"]
    ELSE LET arr == NpLoad(files[paths[k]])
         IN LoadLoop(names, paths, k + 1, files, Append(means, Mean(arr)),
                     Append(log, Event("load", names[k], paths[k], Len(arr))))

\* a read loop that passes over a missing file instead of raising
RECURSIVE LoadLoopSkip(_, _, _, _, _, _)
LoadLoopSkip(names, paths, k, files, means, log) ==
    IF k > Len(names) THEN [means |-> means, log |-> log, exc |-> "ok"]
    ELSE IF paths[k] \notin DOMAIN files
    THEN LoadLoopSkip(names, paths, k + 1, files, means, log)
    ELSE LET arr == NpLoad(files[paths[k]])
         IN LoadLoopSkip(names, paths, k + 1, files, Append(means, Mean(arr)),
                         Append(log, Event("load", names[k], paths[k], Len(arr))))

LoadAllSkip(names, paths, files) == LoadLoopSkip(names, paths, 1, files, <<>>, <<>>)

\* the read loop of test_flat, test_two_level and test_four_level
LoadAll(names, paths, files) == LoadLoop(names, paths, 1, files, <<>>, <<>>)

\* print(np.max(means), np.mean(means), np.min(means)) after the loop
Summary(files, order, w) ==
    IF w.exc # "ok" THEN Result(w.exc, "load", files, w.log, order, w.means, FALSE)
    ELSE IF w.means = <<>>
    THEN Result("ValueError", "max", files, w.log, order, w.means, FALSE)
    ELSE Result("ok", "none", files, w.log, order, w.means, TRUE)

\* test_flat without np.random.seed(515) before the shuffle
test_flat_unseeded(size, r0) ==
    IF ~filelist.exists THEN Raised("FileNotFoundError", "filelist")
    ELSE LET files == NpLoad(filelist)
             order == Shuffle(files, r0).data
             paths == [k \in 1..Len(order) |-> TestPathFlat(order[k])]
         IN Summary(files, order, LoadAll(order, paths, flat))

test_flat(size, r0) ==
    IF ~filelist.exists THEN Raised("FileNotFoundError", "filelist")
    ELSE LET files == NpLoad(filelist)
             order == Shuffle(files, Seed(SeedValue, r0)).data
         IN Summary(files, order,
                    LoadAll(order, [k \in 1..Len(order) |-> TestPathFlat(order[k])], flat))

test_two_level(size, r0) ==
    IF ~filelist.exists THEN Raised("FileNotFoundError", "filelist")
    ELSE LET files == NpLoad(filelist)
             order == Shuffle(files, Seed(SeedValue, r0)).data
         IN Summary(files, order,
                    LoadAll(order, [k \in 1..Len(order) |-> TestPathTwo(order[k])], two))

test_four_level(size, r0) ==
    IF ~filelist.exists THEN Raised("FileNotFoundError", "filelist")
    ELSE LET files == NpLoad(filelist)
             order == Shuffle(files, Seed(SeedValue, r0)).data
         IN Summary(files, order,
                    LoadAll(order, [k \in 1..Len(order) |-> TestPathFour(order[k])], four))

\* for i in idx: means.append(np.mean(arr[i]))
RECURSIVE RowMeans(_, _, _, _, _, _)
RowMeans(idx, k, size, data, means, log) ==
    IF k > Len(idx) THEN [means |-> means, log |-> log, exc |-> "ok"]
    ELSE LET row == RowOf(data, idx[k], size)
         IN RowMeans(idx, k + 1, size, data, Append(means, Mean(row)),
                     Append(log, Event("load", idx[k],
                                       << idx[k] * size * ItemBytes >>, Len(row))))

\* np.memmap(mode="r", shape=(n, size)) maps n * size * 4 bytes of the file
\* as it is: mmap refuses more bytes than the file has, and an empty file;
\* asked for no bytes it maps the whole file.
test_memmap(size, r0) ==
    IF ~filelist.exists THEN Raised("FileNotFoundError", "filelist")
    ELSE LET files == NpLoad(filelist)
             n == Len(files)
             bytes == n * size * ItemBytes
             idx == [k \in 1..n |-> k - 1]
             order == Shuffle(idx, Seed(SeedValue, r0)).data
             opened == << Event("open", <<>>, <<>>, bytes) >>
             w == RowMeans(order, 1, size, memmap.data, <<>>, opened)
             done == Summary(files, order, w)
         IN IF ~memmap.exists
            THEN Result("FileNotFoundError", "memmap", files, <<>>, <<>>, <<>>, FALSE)
            ELSE IF bytes > memmap.bytes \/ memmap.bytes = 0
            THEN Result("ValueError", "memmap", files, <<>>, <<>>, <<>>, FALSE)
            ELSE [done EXCEPT !.log = @ \o << Event("release", <<>>, <<>>, 0) >>]

(***************************************************************************)
(* One invocation of the script: the module-level mkdir, docopt, and the   *)
(* branch of __main__ the arguments select.                                *)
(***************************************************************************)
\* --size as the command line may give it; given = FALSE: not given
SizeArgs == SizeOptions \cup {[given |-> FALSE, text |-> <<>>]}

\* arguments["--size"]
ArgSize(arg) == IF arg.given THEN arg ELSE SizeDefault

\* Path("cache").mkdir(exist_ok=True), and the bookkeeping of the model
Start(outcome) ==
    /\ ops < MaxOps
    /\ ops' = ops + 1
    /\ cacheDir' = TRUE
    /\ out' = outcome

\* A working directory holds one layout: a behaviour of the model creates
\* the artifacts of one layout only (it may test any).  The layouts share
\* nothing but filelist.npy, which create and test only read.
Roots == [l \in Layouts |->
            CASE l = "flat" -> flatDir
              [] l = "two_level" -> twoRoot
              [] l = "four_level" -> fourRoot
              [] OTHER -> memDir]

OnlyLayout(layout) == \A l \in Layouts \ {layout} : ~Roots[l]

flatVars == << flatDir, flat >>
twoVars == << twoRoot, twoMade, two >>
fourVars == << fourRoot, fourMade, four >>
memVars == << memDir, memmap >>

\* benchmark.py --help
Help ==
    /\ Start(Outcome("help", "none", FALSE, 0, FALSE, Raised("SystemExit", "docopt")))
    /\ UNCHANGED << filelist, flatVars, twoVars, fourVars, memVars >>

\* benchmark.py (create|test) TOKEN, TOKEN not a layout: docopt exits
Usage ==
    \E cmd \in {"create", "test"}, token \in LayoutTokens \ Layouts :
        /\ Start(Outcome(cmd, token, FALSE, 0, FALSE, Raised("DocoptExit", "docopt")))
        /\ UNCHANGED << filelist, flatVars, twoVars, fourVars, memVars >>

\* benchmark.py init COUNT
CmdInit ==
    \E text \in CountTexts :
        LET n == IntOfEval(text)
        IN IF n.exc # "ok"
           THEN /\ Start(Outcome("init", "none", FALSE, 0, FALSE, Raised(n.exc, "eval")))
                /\ UNCHANGED << filelist, flatVars, twoVars, fourVars, memVars >>
           ELSE \E names \in NameLists(n.val) :
                   LET made == create_filelist(n.val, names)
                   IN /\ Start(Outcome("init", "none", FALSE, n.val, TRUE, made.res))
                      /\ filelist' = made.filelist
                      /\ UNCHANGED << flatVars, twoVars, fourVars, memVars >>

\* int(arguments["--size"]) raised: the layout function is not called
BadSize(cmd, layout, arg) ==
    /\ IntOf(ArgSize(arg)).exc # "ok"
    /\ Start(Outcome(cmd, layout, arg.given, 0, FALSE,
                     Raised(IntOf(ArgSize(arg)).exc, "int")))
    /\ UNCHANGED << filelist, flatVars, twoVars, fourVars, memVars >>

GoodSize(arg) == IntOf(ArgSize(arg)).exc = "ok"

SizeOf(arg) == IntOf(ArgSize(arg)).val

\* benchmark.py create flat [--size=N]
CmdCreateFlat ==
    /\ OnlyLayout("flat")
    /\ \E arg \in SizeArgs :
        \/ BadSize("create", "flat", arg)
        \/ /\ GoodSize(arg)
           /\ \E r0 \in Entropy :
              LET made == create_files_flat(SizeOf(arg), r0)
              IN /\ Start(Outcome("create", "flat", arg.given, SizeOf(arg), TRUE, made.res))
                 /\ flatDir' = TRUE
                 /\ flat' = made.files
           /\ UNCHANGED << filelist, twoVars, fourVars, memVars >>

\* benchmark.py create two_level [--size=N]
CmdCreateTwoLevel ==
    /\ OnlyLayout("two_level")
    /\ \E arg \in SizeArgs :
        \/ BadSize("create", "two_level", arg)
        \/ /\ GoodSize(arg)
           /\ \E r0 \in Entropy :
              LET made == create_files_two_level(SizeOf(arg), r0)
              IN /\ Start(Outcome("create", "two_level", arg.given, SizeOf(arg), TRUE,
                                  made.res))
                 /\ twoRoot' = TRUE
                 /\ twoMade' = made.made
                 /\ two' = made.files
           /\ UNCHANGED << filelist, flatVars, fourVars, memVars >>

\* benchmark.py create four_level [--size=N]
CmdCreateFourLevel ==
    /\ OnlyLayout("four_level")
    /\ \E arg \in SizeArgs :
        \/ BadSize("create", "four_level", arg)
        \/ /\ GoodSize(arg)
           /\ \E r0 \in Entropy :
              LET made == create_files_four_level(SizeOf(arg), r0)
              IN /\ Start(Outcome("create", "four_level", arg.given, SizeOf(arg), TRUE,
                                  made.res))
                 /\ fourRoot' = TRUE
                 /\ fourMade' = made.made
                 /\ four' = made.files
           /\ UNCHANGED << filelist, flatVars, twoVars, memVars >>

\* benchmark.py create memmap [--size=N]
CmdCreateMemmap ==
    /\ OnlyLayout("memmap")
    /\ \E arg \in SizeArgs :
        \/ BadSize("create", "memmap", arg)
        \/ /\ GoodSize(arg)
           /\ \E r0 \in Entropy, grow \in BOOLEAN :
              LET made == create_files_memmap(SizeOf(arg), r0, grow)
              IN /\ Start(Outcome("create", "memmap", arg.given, SizeOf(arg), TRUE,
                                  made.res))
                 /\ memDir' = TRUE
                 /\ memmap' = made.block
           /\ UNCHANGED << filelist, flatVars, twoVars, fourVars >>

\* benchmark.py test flat [--size=N]
CmdTestFlat ==
    \E arg \in SizeArgs :
        \/ BadSize("test", "flat", arg)
        \/ /\ GoodSize(arg)
           /\ \E r0 \in Entropy :
                Start(Outcome("test", "flat", arg.given, SizeOf(arg), TRUE,
                              test_flat(SizeOf(arg), r0)))
           /\ UNCHANGED << filelist, flatVars, twoVars, fourVars, memVars >>

\* benchmark.py test two_level [--size=N]
CmdTestTwoLevel ==
    \E arg \in SizeArgs :
        \/ BadSize("test", "two_level", arg)
        \/ /\ GoodSize(arg)
           /\ \E r0 \in Entropy :
                Start(Outcome("test", "two_level", arg.given, SizeOf(arg), TRUE,
                              test_two_level(SizeOf(arg), r0)))
           /\ UNCHANGED << filelist, flatVars, twoVars, fourVars, memVars >>

\* benchmark.py test four_level [--size=N]
CmdTestFourLevel ==
    \E arg \in SizeArgs :
        \/ BadSize("test", "four_level", arg)
        \/ /\ GoodSize(arg)
           /\ \E r0 \in Entropy :
                Start(Outcome("test", "four_level", arg.given, SizeOf(arg), TRUE,
                              test_four_level(SizeOf(arg), r0)))
           /\ UNCHANGED << filelist, flatVars, twoVars, fourVars, memVars >>

\* benchmark.py test memmap [--size=N]
CmdTestMemmap ==
    \E arg \in SizeArgs :
        \/ BadSize("test", "memmap", arg)
        \/ /\ GoodSize(arg)
           /\ \E r0 \in Entropy :
                Start(Outcome("test", "memmap", arg.given, SizeOf(arg), TRUE,
                              test_memmap(SizeOf(arg), r0)))
           /\ UNCHANGED << filelist, flatVars, twoVars, fourVars, memVars >>

Next ==
    \/ Help
    \/ Usage
    \/ CmdInit
    \/ CmdCreateFlat
    \/ CmdCreateTwoLevel
    \/ CmdCreateFourLevel
    \/ CmdCreateMemmap
    \/ CmdTestFlat
    \/ CmdTestTwoLevel
    \/ CmdTestFourLevel
    \/ CmdTestMemmap

Spec == Init /\ [][Next]_vars

(***************************************************************************)
(* The properties.                                                         *)
(***************************************************************************)
IsWrite(e) == e.ev \in {"save", "row"}
IsLoad(e) == e.ev = "load"

Saves(o) == SelectSeq(o.log, IsWrite)
Loads(o) == SelectSeq(o.log, IsLoad)

\* what names the k-th record: the identifier, or for memmap its index
KeyOf(o, k) == IF o.layout = "memmap" THEN k - 1 ELSE o.ids[k]

Wrote(o, key) == \E i \in 1..Len(Saves(o)) : Saves(o)[i].id = key

\* the last write of the record in the run o
LastWrite(o, key) ==
    LET w == Saves(o)
    IN w[CHOOSE i \in 1..Len(w) :
            /\ w[i].id = key
            /\ \A j \in (i + 1)..Len(w) : w[j].id # key]

\* create LAYOUT succeeded, and the next invocation is test LAYOUT with the
\* same size
CreateThenTest ==
    /\ out.cmd = "create" /\ out.called /\ out.exc = "ok"
    /\ out'.cmd = "test" /\ out'.called
    /\ out'.layout = out.layout /\ out'.size = out.size

LenAsClaimed(layout, len, size) ==
    IF layout = "memmap" THEN len = size
    ELSE MinLen <= len /\ len < MinLen + LenFactor * size

LenAsWritten(layout, len, size) ==
    IF layout = "memmap" THEN len = size
    ELSE IF size >= 1 THEN MinLen <= len /\ len < MinLen + LenFactor * size
    ELSE len = MinLen

\* the test run t reads every record of the create run c where c wrote it
ReadsWhatWasWritten(c, t) ==
    \A k \in 1..Len(c.ids) :
        /\ Wrote(c, KeyOf(c, k))
        /\ \E i \in 1..Len(Loads(t)) :
              /\ Loads(t)[i].id = KeyOf(c, k)
              /\ Loads(t)[i].path = LastWrite(c, KeyOf(c, k)).path
              /\ Loads(t)[i].len = LastWrite(c, KeyOf(c, k)).len

LengthsAsClaimed(c) ==
    \A i \in 1..Len(Saves(c)) : LenAsClaimed(c.layout, Saves(c)[i].len, c.size)

LengthsAsWritten(c) ==
    \A i \in 1..Len(Saves(c)) : LenAsWritten(c.layout, Saves(c)[i].len, c.size)

\* C1 as stated: after create L with size SIZE and then test L with the same
\* SIZE, every identifier is read at the location create wrote for it, and
\* the record read has the length create wrote: in [10, 10 + 5 * SIZE) for
\* flat, two_level and four_level, exactly SIZE for memmap.
C1_AsStated ==
    [][CreateThenTest => ReadsWhatWasWritten(out, out') /\ LengthsAsClaimed(out)]_vars

\* C1 as amended: the same, the length being in [10, 10 + 5 * SIZE) when
\* SIZE >= 1 and exactly 10 when SIZE = 0 for flat, two_level and
\* four_level, and exactly SIZE for memmap.
C1_Symmetry ==
    [][CreateThenTest => ReadsWhatWasWritten(out, out') /\ LengthsAsWritten(out)]_vars

\* a test of four_level that read two different identifiers, right after
\* init and create (the only three invocations that end this way)
C1_Witness ==
    /\ ops = 3
    /\ out.cmd = "test" /\ out.layout = "four_level" /\ out.exc = "ok"
    /\ out.size >= 1
    /\ Len(out.ids) = 2 /\ out.ids[1] # out.ids[2]
    /\ Len(Loads(out)) = 2

\* an artifact of the identifier under the layout: a file of its name below
\* the layout's directory; for memmap, the block
HasArtifact(layout, name) ==
    CASE layout = "flat" -> \E p \in DOMAIN flat : p[Len(p)] = name
      [] layout = "two_level" -> \E p \in DOMAIN two : p[Len(p)] = name
      [] layout = "four_level" -> \E p \in DOMAIN four : p[Len(p)] = name
      [] OTHER -> memmap.exists

\* the last invocation was test L over a persisted set some identifier of
\* which has no artifact under L
TestWithMissing ==
    /\ out.cmd = "test" /\ out.called
    /\ filelist.exists
    /\ \E k \in 1..Len(NpLoad(filelist)) : ~HasArtifact(out.layout, NpLoad(filelist)[k])

\* C2: test L fails with MissingArtifact (FileNotFoundError) whenever an
\* identifier of the persisted set has no artifact under L; the pass stops
\* there, nothing is read twice, and no summary is printed.
C2_MissingArtifact ==
    TestWithMissing =>
        /\ out.exc = "FileNotFoundError"
        /\ out.at \in {"load", "memmap"}
        /\ ~out.summary
        /\ Len(out.means) < Len(out.ids)
        /\ Len(Loads(out)) = Len(out.means)
        /\ \A i \in 1..Len(Loads(out)) : Loads(out)[i].id = out.order[i]

\* a test that read one record and then met an identifier without artifact
C2_Witness ==
    /\ TestWithMissing
    /\ out.layout = "two_level"
    /\ Len(Loads(out)) = 1

\* C3 as stated (already for SIZE >= 1 and a block written with
\* SIZE >= 1): test memmap fails with ShapeMismatch (the ValueError of
\* np.memmap) whenever the shape of the block differs from (number of
\* identifiers, SIZE), also when the block is the larger one.
C3_AsStated ==
    ( /\ out.cmd = "test" /\ out.layout = "memmap" /\ out.called
      /\ filelist.exists /\ memmap.exists
      /\ out.size >= 1 /\ memmap.shape[2] >= 1
      /\ memmap.shape # << Len(out.ids), out.size >> )
        => out.exc = "ValueError" /\ out.at = "memmap"

\* C4's case: create L succeeded and the next invocation is create L again,
\* with the same size, and succeeds
CreateTwice ==
    /\ out.cmd = "create" /\ out.called /\ out.exc = "ok"
    /\ out'.cmd = "create" /\ out'.called /\ out'.exc = "ok"
    /\ out'.layout = out.layout /\ out'.size = out.size

\* the k-th write of the run is that of the k-th identifier
InLockstep(o) ==
    /\ Len(Saves(o)) = Len(o.ids)
    /\ \A k \in 1..Len(o.ids) : Saves(o)[k].id = KeyOf(o, k)

\* C4: two create L runs over the same persisted set with the same SIZE
\* write the same records (same lengths, same content): the second run
\* leaves every file as the first wrote it, and in each run the k-th
\* identifier gets the k-th draws.
C4_Determinism ==
    [][CreateTwice =>
          /\ out'.ids = out.ids
          /\ out'.log = out.log
          /\ InLockstep(out) /\ InLockstep(out')
          /\ flat' = flat /\ two' = two /\ four' = four /\ memmap' = memmap]_vars

\* a second create of two different identifiers under flat
C4_Witness ==
    /\ out.cmd = "create" /\ out.layout = "flat" /\ out.exc = "ok" /\ out.rerun
    /\ out.size >= 1
    /\ Len(out.ids) = 2 /\ out.ids[1] # out.ids[2]
    /\ Len(Saves(out)) = 2

\* C5's case: test L ran and the next invocation is test L again with the
\* same size
TestTwice ==
    /\ out.cmd = "test" /\ out.called
    /\ out'.cmd = "test" /\ out'.called
    /\ out'.layout = out.layout /\ out'.size = out.size

\* C5: two test L runs over the same persisted set load the same identifier
\* sequence, visit it in the same shuffled order and compute the same
\* sequence of per-record means; a test run leaves the persisted set as it
\* is.
C5_ShuffleStability ==
    [][TestTwice =>
          /\ filelist' = filelist
          /\ out'.ids = out.ids
          /\ out'.order = out.order
          /\ out'.means = out.means]_vars

\* a second test of flat whose shuffle moved the two identifiers
C5_Witness ==
    /\ out.cmd = "test" /\ out.layout = "flat" /\ out.exc = "ok" /\ out.rerun
    /\ Len(out.order) = 2 /\ out.order # out.ids
    /\ Len(out.means) = 2

Distinct(s) == \A i, j \in 1..Len(s) : i # j => s[i] # s[j]

\* init ran create_filelist
InitRan == out.cmd = "init" /\ out.called

\* the self-check of init: it fails exactly when the reloaded count differs
CountChecked ==
    InitRan => (out.exc = "AssertionError" <=> Len(NpLoad(filelist)) # out.size)

\* the reload gives COUNT tokens in the order generated
RoundTrip ==
    /\ out.exc = "ok"
    /\ filelist.exists
    /\ Len(NpLoad(filelist)) = out.size
    /\ NpLoad(filelist) = out.ids

BucketCreate(layout) ==
    /\ out.cmd = "create" /\ out.layout = layout /\ out.called
    /\ out.at # "filelist"

AllBuckets == 0..(HexBase * HexBase * HexBase - 1)

\* the first event of the run is the making of all 4096 directories, and
\* no write failed for want of its directory
MadeBeforeWrites ==
    /\ out.log # <<>>
    /\ out.log[1].ev = "mkdirs"
    /\ out.log[1].len = HexBase * HexBase * HexBase
    /\ \A i \in 2..Len(out.log) : out.log[i].ev = "save"
    /\ out.exc = "ok"
    /\ InLockstep(out)

\* C7: in create two_level and create four_level all 4096 bucket
\* directories exist before the first artifact is written, also those that
\* get no identifier, and every artifact goes to the directory of the last
\* 3 hex characters of its identifier (one per level, last first, for
\* four_level), which exists.
C7_BucketCoverage ==
    /\ BucketCreate("two_level") =>
          /\ MadeBeforeWrites
          /\ \A i \in AllBuckets : TwoDirExists(twoMade, Hex03(i))
          /\ \A i \in 1..Len(Saves(out)) :
                LET e == Saves(out)[i]
                IN /\ e.path = << << e.id[NameLen - 2], e.id[NameLen - 1], e.id[NameLen] >>,
                                  e.id >>
                   /\ e.path \in DOMAIN two
    /\ BucketCreate("four_level") =>
          /\ MadeBeforeWrites
          /\ \A i \in AllBuckets : FourDirExists(fourMade, Hex03(i))
          /\ \A i \in 1..Len(Saves(out)) :
                LET e == Saves(out)[i]
                IN /\ e.path = << e.id[NameLen], e.id[NameLen - 1], e.id[NameLen - 2],
                                  e.id >>
                   /\ e.path \in DOMAIN four

\* a create two_level that wrote two identifiers into different buckets
C7_Witness ==
    /\ BucketCreate("two_level")
    /\ Len(Saves(out)) = 2
    /\ Saves(out)[1].path[1] # Saves(out)[2].path[1]

\* C8 as stated: create LAYOUT and test LAYOUT without --size call the
\* layout function with the integer 256.
C8_AsStated ==
    (out.cmd \in {"create", "test"} /\ out.layout \in Layouts /\ ~out.given)
        => out.called /\ out.size = DocumentedDefault

\* the invocation was rejected for its arguments: unknown LAYOUT token,
\* COUNT that does not evaluate, --size that is not a number
InvalidArgument(o) ==
    /\ ~o.called
    /\ \/ o.exc = "DocoptExit"
       \/ o.exc = "NameError" /\ o.at = "eval"
       \/ o.exc = "ValueError" /\ o.at = "int"

\* C9 as stated: an invocation rejected as InvalidArgument leaves the
\* working directory as it found it.
C9_AsStated == [][InvalidArgument(out') => disk' = disk]_vars

\* create memmap or test memmap opened the block
BlockOpened ==
    /\ out.cmd \in {"create", "test"} /\ out.layout = "memmap" /\ out.called
    /\ \E i \in 1..Len(out.log) : out.log[i].ev = "open"

CountOf(log, ev) == Cardinality({i \in 1..Len(log) : log[i].ev = ev})

C10_ErrorPath ==
    /\ BlockOpened /\ out.cmd = "test" /\ out.exc # "ok"

====
